---- MODULE Spec2Model ----
(***************************************************************************)
(* Authentication and session-validity core of the contacts API:           *)
(* registration, e-mail verification, login, password reset and the        *)
(* cache-backed resolution of an access token (app/auth.py,                *)
(* app/security.py, app/models.py, app/schemas.py, app/email.py).          *)
(*                                                                         *)
(* Time is a discrete UTC clock `now`.  get_current_user and               *)
(* reset_password are split at their Redis and database calls, so that two *)
(* workers interleave where the real handlers can; the other handlers are  *)
(* one step each.  The response of a step is a function of the state it   *)
(* starts in and of the request: <handler>_result gives it, and the action *)
(* <handler> changes the state as that outcome prescribes.                 *)
(***************************************************************************)
EXTENDS Integers, FiniteSets, Sequences, TLC

VARIABLES now, users, refresh_tokens, contacts, cache, delivered, procs

vars == <<now, users, refresh_tokens, contacts, cache, delivered, procs>>

----------------------------------------------------------------------------
(* Bounds of the model *)

\* the clock stops here
MaxTime == 2
\* at most this many tokens leave the server (mail or login response)
MaxTokens == 2

(* Lifetimes, in ticks of the model's clock.  The source's values (300 s,   *)
(* 15 min, 1 h, 24 h, 7 days) are scaled down: what the handlers do with a  *)
(* lifetime is compare the resulting expiry with the clock, and a lifetime  *)
(* of one tick already lets a token or a cache entry be both live and       *)
(* expired within MaxTime.                                                  *)
REDIS_CACHE_EXPIRATION == 1
ACCESS_TOKEN_EXPIRE_MINUTES == 1
RESET_TOKEN_HOURS == 1
VERIFICATION_TOKEN_HOURS == 1
REFRESH_TOKEN_MAX_AGE == 2

\* models.py:69 - default=datetime.now(UTC) is evaluated once, when the
\* module is imported: every inserted row gets the process start time.
ImportTime == 0

\* datetime.timestamp() of the naive value read back from the DateTime column
\* assumes the process's local zone; the value was stored as UTC wall time.
\* The offset of the local zone from UTC, in ticks (0: the process runs in UTC).
LocalUtcOffset == 0

\* the (username, email, password) a registration request may carry
Registrations == {<<"alice", "a@x.com", "pw1">>}
Emails == {reg[2] : reg \in Registrations}
\* init_db.py: the administrator's address and password from the environment
ADMIN_EMAIL == "admin@x.com"
ADMIN_PASSWORD == "pw1"
\* an address that never registers
Stranger == "s@x.com"
Passwords == {"pw1", "pw2"}
\* concurrent request handlers (event loop and thread-pool workers)
Procs == {1, 2}

\* payload.get("sub") / payload.get("iat") returning None
NoSub == "<None>"
NoIat == -1
\* a NULL last_password_reset
NullTime == -1
FarFuture == MaxTime + 1

----------------------------------------------------------------------------
(* Tokens: the claims of a compact JWT and whether it verifies.            *)

\* an encoder that loses the sub claim
jwt_encode_without_sub(sub, iat, exp) ==
    [fmt |-> "jwt", sig |-> TRUE, sub |-> NoSub, iat |-> iat, exp |-> exp]

\* jwt.encode(..., SECRET_KEY): a well-formed token signed with the key
jwt_encode(sub, iat, exp) ==
    [fmt |-> "jwt", sig |-> TRUE, sub |-> sub, iat |-> iat, exp |-> exp]

\* a decode that does not verify the exp claim
JWTError_exp_unverified(tok) == tok.fmt # "jwt" \/ ~tok.sig

\* jwt.decode raises JWTError: not a JWT, bad signature, or exp in the past
JWTError(tok) == tok.fmt # "jwt" \/ ~tok.sig \/ tok.exp < now

create_access_token(sub, expires_delta) ==
    jwt_encode(sub, now, now + expires_delta)

create_verification_token(email) ==
    jwt_encode(email, NoIat, now + VERIFICATION_TOKEN_HOURS)

create_reset_token(email) ==
    jwt_encode(email, NoIat, now + RESET_TOKEN_HOURS)

\* Inputs a client can present that the application never issued
Garbage == [fmt |-> "garbage", sig |-> FALSE, sub |-> NoSub, iat |-> NoIat, exp |-> 0]
Tampered(tok) == [tok EXCEPT !.sig = FALSE]
\* signed with the same key elsewhere: no subject / an address with no account
NoSubToken == jwt_encode(NoSub, 0, FarFuture)
StrangerAccess == jwt_encode(Stranger, 0, FarFuture)
StrangerPlain == jwt_encode(Stranger, NoIat, FarFuture)

Held == {d.tok : d \in delivered}
Presentable ==
    Held \cup {Tampered(t) : t \in Held}
         \cup {Garbage, NoSubToken, StrangerAccess, StrangerPlain}

----------------------------------------------------------------------------
(* Passwords, accounts, snapshots *)

get_password_hash(password) == <<"bcrypt", password>>
verify_password(plain_password, hashed_password) ==
    hashed_password = get_password_hash(plain_password)

\* db.query(models.User).filter(models.User.email == email).first()
HasUser(email) == email \in DOMAIN users

\* .timestamp() of a stored last_password_reset
timestamp(dt) == dt - LocalUtcOffset

\* schemas.UserResponse.model_validate(user): the cached / returned projection
UserResponse(u) ==
    [id |-> u.id, username |-> u.username, email |-> u.email,
     is_active |-> u.is_active, is_verified |-> u.is_verified,
     avatar_url |-> u.avatar_url,
     last_password_reset |-> u.last_password_reset, role |-> u.role]

\* f"user:{email}"
redis_key(email) == <<"user:", email>>

\* redis get: the value, unless absent or past its expiry
CacheHit(key) == key \in DOMAIN cache /\ now < cache[key].expires

\* a set without ex=: the entry never expires
redis_set_persistent(c, key, value, ex) ==
    (key :> [value |-> value, expires |-> MaxTime + 2]) @@ c

\* a set that is lost
redis_set_dropped(c, key, value, ex) == c

\* redis set(key, value, ex=ttl): overwrite
redis_set(c, key, value, ex) == (key :> [value |-> value, expires |-> now + ex]) @@ c

\* a delete that leaves the entry in place
redis_delete_skipped(c, key) == c

\* a delete that empties the cache
redis_delete_flushing(c, key) == <<>>

\* redis delete(key)
redis_delete(c, key) == [k \in DOMAIN c \ {key} |-> c[k]]

\* the rule with <= for <: a token minted at the reset instant is rejected
TokenStale_inclusive(last_password_reset, token_iat) ==
    /\ last_password_reset # NullTime
    /\ token_iat <= timestamp(last_password_reset)

\* the invalidation rule of get_current_user (both paths)
TokenStale(last_password_reset, token_iat) ==
    /\ last_password_reset # NullTime
    /\ token_iat < timestamp(last_password_reset)

----------------------------------------------------------------------------
(* Responses *)

CRED == "Could not validate credentials"
STALE == "Token is no longer valid. Please log in again."

NoUser == {}

\* status and detail of the HTTP answer; for a resolution also where the
\* identity came from (src) and the identity (user); io: the calls made
Response(status, detail, src, user, io) ==
    [status |-> status, detail |-> detail, src |-> src, user |-> user, io |-> io]

\* the handler has not answered yet: it goes on to its next call
Pending(io) == Response(0, "pending", "", NoUser, io)

IdleProc ==
    [op |-> "idle", pc |-> "idle", token |-> Garbage, email |-> NoSub, user |-> NoUser]

Idle(p) == procs[p].op = "idle"

\* a request is taken by the first free worker
Free(p) == Idle(p) /\ \A q \in Procs : q < p => ~Idle(q)

----------------------------------------------------------------------------
Init ==
    /\ now = 0
    /\ users = <<>>
    /\ refresh_tokens = {}
    /\ contacts = {}
    /\ cache = <<>>
    /\ delivered = {}
    /\ procs = [p \in Procs |-> IdleProc]

\* Redis drops an entry once its time-to-live has elapsed
Expire(c, t) == [k \in {j \in DOMAIN c : t < c[j].expires} |-> c[k]]

Tick ==
    /\ now < MaxTime
    /\ now' = now + 1
    /\ cache' = Expire(cache, now + 1)
    /\ UNCHANGED <<users, refresh_tokens, delivered, procs, contacts>>

----------------------------------------------------------------------------
(* One-step handlers *)

\* _send_email delivered the message (status 202) or raised HTTPException(500)
Mail(purpose, tok, sent) ==
    IF sent THEN delivered \cup {[purpose |-> purpose, tok |-> tok]} ELSE delivered

Quota(d) == Cardinality(d) <= MaxTokens

NewUser(username, email, password) ==
    [id |-> Cardinality(DOMAIN users) + 1, username |-> username,
     email |-> email, hashed_password |-> get_password_hash(password),
     role |-> "user", last_password_reset |-> ImportTime,
     is_active |-> TRUE, is_verified |-> FALSE,
     verification_token |-> {create_verification_token(email)}, avatar_url |-> ""]

\* POST /auth/register
register_user_result(username, email, password, sent) ==
    IF HasUser(email)
    THEN Response(409, "Email already registered", "", NoUser, {"db.query"})
    ELSE IF \E e \in DOMAIN users : users[e].username = username
    THEN \* unique username: the INSERT raises IntegrityError
         Response(500, "Internal Server Error", "", NoUser, {"db.query", "db.commit"})
    ELSE IF ~sent
    THEN Response(500, "Email error", "", NoUser, {"db.query", "db.commit", "email"})
    ELSE Response(201, "", "db", {UserResponse(NewUser(username, email, password))},
                  {"db.query", "db.commit", "email"})

register_user(username, email, password, sent) ==
    LET r == register_user_result(username, email, password, sent)
        tok == create_verification_token(email)
    IN  /\ IF "email" \in r.io
           THEN /\ Quota(Mail("verify", tok, sent))
                /\ users' = (email :> NewUser(username, email, password)) @@ users
                /\ delivered' = Mail("verify", tok, sent)
           ELSE UNCHANGED <<users, delivered>>
        /\ UNCHANGED <<now, refresh_tokens, cache, procs, contacts>>

\* the handler without `if user.is_verified`
verify_email_result_no_verified_check(token) ==
    IF JWTError(token)
    THEN Response(400, "Invalid token or expired link", "", NoUser, {})
    ELSE IF token.sub = NoSub
    THEN Response(400, "Invalid token", "", NoUser, {})
    ELSE IF ~HasUser(token.sub)
    THEN Response(404, "User not found", "", NoUser, {"db.query"})
    ELSE Response(200, "Email successfully verified!", "", NoUser, {"db.query", "db.commit"})

\* GET /auth/verify-email
verify_email_result(token) ==
    IF JWTError(token)
    THEN Response(400, "Invalid token or expired link", "", NoUser, {})
    ELSE IF token.sub = NoSub
    THEN Response(400, "Invalid token", "", NoUser, {})
    ELSE IF ~HasUser(token.sub)
    THEN Response(404, "User not found", "", NoUser, {"db.query"})
    ELSE IF users[token.sub].is_verified
    THEN Response(400, "User already verified", "", NoUser, {"db.query"})
    ELSE Response(200, "Email successfully verified!", "", NoUser, {"db.query", "db.commit"})

\* a verification that leaves the token in the row
verify_email_users_keeping_token(token) ==
    IF verify_email_result(token).status = 200
    THEN [users EXCEPT ![token.sub].is_verified = TRUE]
    ELSE users

\* lines 332-334: the table after the request
verify_email_users(token) ==
    IF verify_email_result(token).status = 200
    THEN [users EXCEPT ![token.sub].is_verified = TRUE,
                       ![token.sub].verification_token = {}]
    ELSE users

verify_email(token) ==
    /\ users' = verify_email_users(token)
    /\ UNCHANGED <<now, refresh_tokens, cache, delivered, procs, contacts>>

\* POST /auth/request-password-reset
request_password_reset_result(email, sent) ==
    IF ~HasUser(email)
    THEN Response(404, "User not found", "", NoUser, {"db.query"})
    ELSE IF ~sent
    THEN Response(500, "Email error", "", NoUser, {"db.query", "email"})
    ELSE Response(200, "Password reset email sent successfully.", "", NoUser,
                  {"db.query", "email"})

request_password_reset(email, sent) ==
    /\ IF request_password_reset_result(email, sent).status = 200
       THEN /\ Quota(Mail("reset", create_reset_token(email), sent))
            /\ delivered' = Mail("reset", create_reset_token(email), sent)
       ELSE UNCHANGED delivered
    /\ UNCHANGED <<now, users, refresh_tokens, cache, procs, contacts>>

\* an authentication that accepts any password of an existing account
authenticate_user_any_password(email, password) == HasUser(email)

authenticate_user(email, password) ==
    HasUser(email) /\ verify_password(password, users[email].hashed_password)

\* schemas.Token: the fields a login response must carry
Token == {"access_token", "refresh_token", "token_type"}

\* auth.py:369 - the dict the handler returns
login_for_access_token_body(email) ==
    [access_token |-> create_access_token(email, ACCESS_TOKEN_EXPIRE_MINUTES),
     token_type |-> "bearer"]

\* POST /auth/login, response_model=schemas.Token: a returned dict that lacks
\* a required field fails response validation and the client gets a 500
login_for_access_token_result(email, password) ==
    IF ~authenticate_user(email, password)
    THEN Response(401, "Incorrect email or password", "", NoUser, {"db.query"})
    ELSE IF Token \subseteq DOMAIN login_for_access_token_body(email)
    THEN Response(200, "", "", NoUser, {"db.query"})
    ELSE Response(500, "Internal Server Error", "", NoUser, {"db.query"})

\* the tokens that have left the server after the request
login_for_access_token_delivered(email, password) ==
    IF login_for_access_token_result(email, password).status = 200
    THEN Mail("access", login_for_access_token_body(email).access_token, TRUE)
    ELSE delivered

login_for_access_token(email, password) ==
    /\ Quota(login_for_access_token_delivered(email, password))
    /\ delivered' = login_for_access_token_delivered(email, password)
    /\ UNCHANGED <<now, users, refresh_tokens, cache, procs, contacts>>

\* auth.create_refresh_token is imported by auth_ui_routes.py but its code is
\* not in app/auth.py: a signed longer-lived token, recorded for the account
create_refresh_token(email) ==
    [user_id |-> users[email].id,
     token |-> jwt_encode(email, NoIat, now + REFRESH_TOKEN_MAX_AGE),
     expires_at |-> now + REFRESH_TOKEN_MAX_AGE, revoked |-> FALSE]

\* POST /auth/login-html: both tokens are set as cookies
login_html_result(username, password) ==
    IF ~authenticate_user(username, password)
    THEN Response(401, "Invalid credentials", "", NoUser, {"db.query"})
    ELSE Response(302, "/dashboard", "", NoUser, {"db.query", "db.commit"})

\* the tokens that have left the server after the request (the cookies)
login_html_delivered(username, password) ==
    IF login_html_result(username, password).status = 302
    THEN Mail("access", create_access_token(username, ACCESS_TOKEN_EXPIRE_MINUTES), TRUE)
    ELSE delivered

\* the refresh_tokens table after the request
login_html_refresh_tokens(username, password) ==
    IF login_html_result(username, password).status = 302
    THEN refresh_tokens \cup {create_refresh_token(username)}
    ELSE refresh_tokens

login_html(username, password) ==
    /\ Quota(login_html_delivered(username, password))
    /\ delivered' = login_html_delivered(username, password)
    /\ refresh_tokens' = login_html_refresh_tokens(username, password)
    /\ UNCHANGED <<now, users, cache, procs, contacts>>

\* the dependency of /dashboard and /logout: the user row, or a RedirectResponse
get_current_user_or_redirect_result(token) ==
    IF JWTError(token) \/ token.sub = NoSub
    THEN Response(307, "/auth/login-form", "", NoUser, {})
    ELSE IF ~HasUser(token.sub)
    THEN Response(307, "/auth/login-form", "", NoUser, {"db.query"})
    ELSE Response(200, "", "db", {UserResponse(users[token.sub])}, {"db.query"})

get_current_user_or_redirect(token) ==
    /\ get_current_user_or_redirect_result(token).status # 0
    /\ UNCHANGED <<now, users, refresh_tokens, cache, delivered, procs, contacts>>

----------------------------------------------------------------------------
(* get_current_user (security.py), split at redis get / db query / redis set *)

\* the request has ended.  Workers are interchangeable: those still in flight
\* are kept in the first slots, as Free hands out the first free one
Finish(p) ==
    LET busy == {q \in Procs \ {p} : procs[q].op # "idle"}
    IN  [q \in Procs |->
            IF q <= Cardinality(busy)
            THEN procs[CHOOSE b \in busy : Cardinality({c \in busy : c < b}) = q - 1]
            ELSE IdleProc]

\* lines 45-73: decode, claims, cache lookup and the cache-hit branch
get_current_user_start_result(token) ==
    LET key == redis_key(token.sub)
    IN  IF JWTError(token) \/ token.sub = NoSub \/ token.iat = NoIat
        THEN Response(401, CRED, "", NoUser, {})
        ELSE IF CacheHit(key)
        THEN IF TokenStale(cache[key].value.last_password_reset, token.iat)
             THEN Response(401, STALE, "cache", NoUser, {"redis.get"})
             ELSE Response(200, "", "cache", {cache[key].value}, {"redis.get"})
        ELSE Pending({"redis.get"})

\* the workers after these lines: the request goes on to line 75 on a
\* cache miss and has ended otherwise
get_current_user_start_procs(p, token) ==
    IF get_current_user_start_result(token).status = 0
    THEN [procs EXCEPT ![p] =
             [IdleProc EXCEPT !.op = "get_current_user", !.pc = "query",
                              !.token = token, !.email = token.sub]]
    ELSE procs

get_current_user_start(p, token) ==
    /\ Free(p)
    /\ procs' = get_current_user_start_procs(p, token)
    /\ UNCHANGED <<now, users, refresh_tokens, cache, delivered, contacts>>

\* the store fallback rejecting a token issued at the reset instant as well
get_current_user_store_result_inclusive(email, token) ==
    LET io == {"redis.get", "db.query"}
    IN  IF ~HasUser(email)
        THEN Response(401, CRED, "db", NoUser, io)
        ELSE IF /\ users[email].last_password_reset # NullTime
                /\ token.iat <= timestamp(users[email].last_password_reset)
        THEN Response(401, STALE, "db", NoUser, io)
        ELSE Pending(io)

\* lines 75-84: the store fallback and its invalidation check
get_current_user_store_result(email, token) ==
    LET io == {"redis.get", "db.query"}
    IN  IF ~HasUser(email)
        THEN Response(401, CRED, "db", NoUser, io)
        ELSE IF TokenStale(users[email].last_password_reset, token.iat)
        THEN Response(401, STALE, "db", NoUser, io)
        ELSE Pending(io)

get_current_user_query_result(p) ==
    get_current_user_store_result(procs[p].email, procs[p].token)

\* a handler that goes on to the cache write with the row it found, whatever
\* the invalidation check says
get_current_user_query_procs_write_first(p) ==
    IF HasUser(procs[p].email)
    THEN [procs EXCEPT ![p].pc = "set",
                       ![p].user = {UserResponse(users[procs[p].email])}]
    ELSE Finish(p)

\* the workers after lines 75-84: on to line 86 with the row's snapshot when
\* the row exists and the check passes, ended otherwise
get_current_user_query_procs(p) ==
    IF get_current_user_query_result(p).status = 0
    THEN [procs EXCEPT ![p].pc = "set",
                       ![p].user = {UserResponse(users[procs[p].email])}]
    ELSE Finish(p)

get_current_user_query(p) ==
    /\ procs[p].op = "get_current_user" /\ procs[p].pc = "query"
    /\ procs' = get_current_user_query_procs(p)
    /\ UNCHANGED <<now, users, refresh_tokens, cache, delivered, contacts>>

\* lines 86-89: write the snapshot with the time-to-live, return it
get_current_user_set_result(p) ==
    Response(200, "", "db", procs[p].user, {"redis.get", "db.query", "redis.set"})

\* the cache after line 87
get_current_user_set_cache(p) ==
    redis_set(cache, redis_key(procs[p].email), CHOOSE u \in procs[p].user : TRUE,
              REDIS_CACHE_EXPIRATION)

get_current_user_set(p) ==
    /\ procs[p].op = "get_current_user" /\ procs[p].pc = "set"
    /\ cache' = get_current_user_set_cache(p)
    /\ procs' = Finish(p)
    /\ UNCHANGED <<now, users, refresh_tokens, delivered, contacts>>

\* lines 40-89 run without interruption: the answer of a whole resolution
get_current_user_result(token) ==
    LET r == get_current_user_start_result(token)
        q == get_current_user_store_result(token.sub, token)
    IN  IF r.status # 0 THEN r
        ELSE IF q.status # 0 THEN q
        ELSE Response(200, "", "db", {UserResponse(users[token.sub])},
                      {"redis.get", "db.query", "redis.set"})

\* the cache after a whole resolution: written on the store path only
get_current_user_cache(token) ==
    LET r == get_current_user_result(token)
    IN  IF r.status = 200 /\ r.src = "db"
        THEN redis_set(cache, redis_key(token.sub), CHOOSE u \in r.user : TRUE,
                       REDIS_CACHE_EXPIRATION)
        ELSE cache

----------------------------------------------------------------------------
(* reset_password (auth.py), split at db commit / redis delete.  The       *)
(* account lookup of line 242 only tests that the row exists, and rows are  *)
(* never deleted, so it is taken together with the commit that follows it.  *)

\* the handler without the account lookup's `if not user`
reset_password_start_result_no_lookup_check(token) ==
    IF JWTError(token)
    THEN Response(400, "Invalid or expired token", "", NoUser, {})
    ELSE IF token.sub = NoSub
    THEN Response(400, "Invalid token", "", NoUser, {})
    ELSE Pending({"db.query", "db.commit"})

\* lines 236-244: decode, subject, account lookup
reset_password_start_result(token) ==
    IF JWTError(token)
    THEN Response(400, "Invalid or expired token", "", NoUser, {})
    ELSE IF token.sub = NoSub
    THEN Response(400, "Invalid token", "", NoUser, {})
    ELSE IF ~HasUser(token.sub)
    THEN Response(404, "User not found", "", NoUser, {"db.query"})
    ELSE Pending({"db.query", "db.commit"})

\* lines 246-248: new hash, last_password_reset = now, commit
reset_password_commit(email, new_password) ==
    [users EXCEPT ![email].hashed_password = get_password_hash(new_password),
                  ![email].last_password_reset = now]

\* the table after lines 236-248
reset_password_start_users(token, new_password) ==
    IF reset_password_start_result(token).status = 0
    THEN reset_password_commit(token.sub, new_password)
    ELSE users

\* the workers after lines 236-248: the request goes on to the cache delete
\* of line 252 after a commit and has ended otherwise
reset_password_start_procs(p, token) ==
    IF reset_password_start_result(token).status = 0
    THEN [procs EXCEPT ![p] =
             [IdleProc EXCEPT !.op = "reset_password", !.pc = "delete",
                              !.email = token.sub]]
    ELSE procs

reset_password_start(p, token, new_password) ==
    /\ Free(p)
    /\ users' = reset_password_start_users(token, new_password)
    /\ procs' = reset_password_start_procs(p, token)
    /\ UNCHANGED <<now, refresh_tokens, cache, delivered, contacts>>

\* lines 250-254: delete the cache entry, answer
reset_password_delete_result(p) ==
    Response(200, "Password reset successful.", "", NoUser,
             {"db.query", "db.commit", "redis.delete"})

\* the cache after line 252
reset_password_delete_cache(p) == redis_delete(cache, redis_key(procs[p].email))

reset_password_delete(p) ==
    /\ procs[p].op = "reset_password" /\ procs[p].pc = "delete"
    /\ cache' = reset_password_delete_cache(p)
    /\ procs' = Finish(p)
    /\ UNCHANGED <<now, users, refresh_tokens, delivered, contacts>>

----------------------------------------------------------------------------
(* Specifications *)

AnyEmail == Emails \cup {Stranger}

\* a request arrives and its handler runs up to its first interleaving point
Arrive ==
    \/ \E reg \in Registrations, sent \in BOOLEAN :
          register_user(reg[1], reg[2], reg[3], sent)
    \/ \E t \in Presentable : verify_email(t)
    \/ \E e \in AnyEmail, sent \in BOOLEAN : request_password_reset(e, sent)
    \/ \E e \in AnyEmail, pw \in Passwords : login_for_access_token(e, pw)
    \/ \E e \in AnyEmail, pw \in Passwords : login_html(e, pw)
    \/ \E t \in Presentable : get_current_user_or_redirect(t)
    \/ \E p \in Procs, t \in Presentable : get_current_user_start(p, t)
    \/ \E p \in Procs, t \in Presentable, pw \in Passwords :
          reset_password_start(p, t, pw)

\* a handler in flight takes its next step
Continue ==
    \E p \in Procs :
        \/ get_current_user_query(p)
        \/ get_current_user_set(p)
        \/ reset_password_delete(p)

Next == Tick \/ Arrive \/ Continue

Spec == Init /\ [][Next]_vars

\* requests handled one at a time: none arrives while another is in flight
Quiet == \A p \in Procs : Idle(p)

SeqNext == Tick \/ (Quiet /\ Arrive) \/ Continue

SeqSpec == Init /\ [][SeqNext]_vars

\* the same requests with time that keeps passing up to the horizon
TimedSpec == Init /\ [][SeqNext]_vars /\ WF_vars(Tick)

\* the concurrent handlers with time that keeps passing up to the horizon
TimedConcurrentSpec == Init /\ [][Next]_vars /\ WF_vars(Tick)

TypeOK ==
    /\ now \in 0..MaxTime
    /\ DOMAIN users \subseteq Emails \cup {ADMIN_EMAIL}
    /\ \A p \in Procs : procs[p].pc \in {"idle", "query", "set", "delete", "insert"}

----------------------------------------------------------------------------
(* The administrator and the admin-gated handlers (init_db.py,             *)
(* dependencies.py, auth.py, main.py).  Here a request is handled without  *)
(* interruption: its dependency resolves the cookie's token as             *)
(* get_current_user does, cache write included, and the handler follows.   *)

\* init_db.create_admin: insert the administrator unless the row exists
create_admin_users ==
    IF HasUser(ADMIN_EMAIL) THEN users
    ELSE (ADMIN_EMAIL :>
            [id |-> Cardinality(DOMAIN users) + 1, username |-> "admin",
             email |-> ADMIN_EMAIL,
             hashed_password |-> get_password_hash(ADMIN_PASSWORD),
             role |-> "admin", last_password_reset |-> ImportTime,
             is_active |-> TRUE, is_verified |-> TRUE,
             verification_token |-> {}, avatar_url |-> ""]) @@ users

create_admin ==
    /\ users' = create_admin_users
    /\ UNCHANGED <<now, refresh_tokens, cache, delivered, procs, contacts>>

UserRole == {"user", "admin"}

\* GET /me: the resolved identity
read_users_me(token) ==
    /\ cache' = get_current_user_cache(token)
    /\ UNCHANGED <<now, users, refresh_tokens, delivered, procs, contacts>>

\* dependencies.get_current_user_from_cookie: get_current_user on the cookie
get_current_user_from_cookie_result(token) == get_current_user_result(token)

\* the dependency without its role check
require_admin_user_from_cookie_result_unchecked(token) ==
    get_current_user_result(token)

\* dependencies.require_admin_user_from_cookie: the resolved identity, or 403
require_admin_user_from_cookie_result(token) ==
    LET r == get_current_user_result(token)
    IN  IF r.status # 200 THEN r
        ELSE IF \E u \in r.user : u.role # "admin"
        THEN Response(403, "Admin access required", r.src, NoUser, r.io)
        ELSE r

\* dependencies.require_admin_user: the same gate for a bearer token
require_admin_user_result(token) ==
    LET r == get_current_user_result(token)
    IN  IF r.status # 200 THEN r
        ELSE IF \E u \in r.user : u.role # "admin"
        THEN Response(403, "Access denied. Admin privileges required.", r.src,
                      NoUser, r.io)
        ELSE r

\* GET /auth/change-role-form
get_change_role_form_result(token) ==
    LET g == require_admin_user_from_cookie_result(token)
    IN  IF g.status # 200 THEN g
        ELSE Response(200, "change_role_form.html", g.src, g.user, g.io)

get_change_role_form(token) ==
    /\ cache' = get_current_user_cache(token)
    /\ UNCHANGED <<now, users, refresh_tokens, delivered, procs, contacts>>

\* POST /auth/change-role
change_user_role_result(token, email, new_role) ==
    LET g == require_admin_user_from_cookie_result(token)
    IN  IF g.status # 200 THEN g
        ELSE IF ~HasUser(email)
        THEN Response(303, "error: User not found", g.src, g.user,
                      g.io \cup {"db.query"})
        ELSE Response(303, "message: Role updated", g.src, g.user,
                      g.io \cup {"db.query", "db.commit"})

\* a role change that also stamps last_password_reset
change_user_role_users_stamping(token, email, new_role) ==
    IF "db.commit" \in change_user_role_result(token, email, new_role).io
    THEN [users EXCEPT ![email].role = new_role, ![email].last_password_reset = now]
    ELSE users

\* the table after the request
change_user_role_users(token, email, new_role) ==
    IF "db.commit" \in change_user_role_result(token, email, new_role).io
    THEN [users EXCEPT ![email].role = new_role]
    ELSE users

\* a handler that evicts the target's snapshot after the commit
change_user_role_cache_evicting(token, email, new_role) ==
    IF "db.commit" \in change_user_role_result(token, email, new_role).io
    THEN redis_delete(get_current_user_cache(token), redis_key(email))
    ELSE get_current_user_cache(token)

\* the cache after the request: the gate's resolution of the caller may
\* have written the caller's snapshot, lines 161-172 make no cache call
change_user_role_cache(token, email, new_role) == get_current_user_cache(token)

change_user_role(token, email, new_role) ==
    /\ users' = change_user_role_users(token, email, new_role)
    /\ cache' = change_user_role_cache(token, email, new_role)
    /\ UNCHANGED <<now, refresh_tokens, delivered, procs, contacts>>

\* cloudinary_service.upload_avatar: response["secure_url"]
AvatarUrl == "https://res.cloudinary.com/avatars"

\* POST /upload-avatar; uploaded: Cloudinary took the file (else it raised)
upload_avatar_route_result(token, uploaded) ==
    LET g == require_admin_user_from_cookie_result(token)
    IN  IF g.status # 200 THEN g
        ELSE IF ~uploaded
        THEN Response(500, "Internal Server Error", g.src, NoUser,
                      g.io \cup {"cloudinary"})
        ELSE Response(200, "", g.src, g.user,
                      g.io \cup {"cloudinary", "db.query", "db.commit"})

\* the table after the request: the row with the identity's id gets the url
upload_avatar_route_users(token, uploaded) ==
    LET r == upload_avatar_route_result(token, uploaded)
    IN  IF "db.commit" \in r.io
        THEN [e \in DOMAIN users |->
                IF \E u \in r.user : u.id = users[e].id
                THEN [users[e] EXCEPT !.avatar_url = AvatarUrl]
                ELSE users[e]]
        ELSE users

upload_avatar_route(token, uploaded) ==
    /\ users' = upload_avatar_route_users(token, uploaded)
    /\ cache' = get_current_user_cache(token)
    /\ UNCHANGED <<now, refresh_tokens, delivered, procs, contacts>>

\* dependencies.get_token_from_cookie: the access_token cookie, or 401; a
\* token sent in an Authorization header is not looked at
get_token_from_cookie_result(transport) ==
    IF transport = "cookie" THEN Pending({})
    ELSE Response(401, "Not authenticated", "", NoUser, {})

\* how a client presents its access token
Transports == {"cookie", "bearer"}

\* POST /upload-avatar as the client sent it
upload_avatar_request_result(transport, token, uploaded) ==
    IF get_token_from_cookie_result(transport).status # 0
    THEN get_token_from_cookie_result(transport)
    ELSE upload_avatar_route_result(token, uploaded)

\* the table after the request
upload_avatar_request_users(transport, token, uploaded) ==
    IF get_token_from_cookie_result(transport).status # 0
    THEN users
    ELSE upload_avatar_route_users(token, uploaded)

\* POST /upload-avatar with the token in the Authorization header: the
\* request ends in get_token_from_cookie
upload_avatar_bearer(token, uploaded) ==
    /\ users' = upload_avatar_request_users("bearer", token, uploaded)
    /\ UNCHANGED <<now, refresh_tokens, cache, delivered, procs, contacts>>

\* the requests of the administration scenario, one at a time
AdminNext ==
    \/ Tick
    \/ create_admin
    \/ \E reg \in Registrations, sent \in BOOLEAN :
          register_user(reg[1], reg[2], reg[3], sent)
    \/ \E e \in AnyEmail \cup {ADMIN_EMAIL}, pw \in Passwords : login_html(e, pw)
    \/ \E t \in Presentable : read_users_me(t)
    \/ \E t \in Presentable : get_change_role_form(t)
    \/ \E t \in Presentable, e \in AnyEmail \cup {ADMIN_EMAIL}, role \in UserRole :
          change_user_role(t, e, role)
    \/ \E t \in Presentable, uploaded \in BOOLEAN : upload_avatar_route(t, uploaded)
    \/ \E t \in Presentable, uploaded \in BOOLEAN : upload_avatar_bearer(t, uploaded)

AdminSpec == Init /\ [][AdminNext]_vars

----------------------------------------------------------------------------
(* Registration seen by the database (auth.py:278-297, models.py:60-61).   *)
(* The handler first looks the address up, then adds the row and commits;  *)
(* another request can run between the two.  The unique indexes are        *)
(* enforced by the INSERT, whatever the handler saw before.                *)

\* registration requests: the same address under two usernames
RegistrationRequests == Registrations \cup {<<"al", "a@x.com", "pw2">>}

\* where a second row for an address would be kept, were one ever accepted
DuplicateOf(email) == "dup:" \o email

\* an INSERT on a table without the unique index on email
db_add_user_no_unique_email(row) ==
    IF \E e \in DOMAIN users : users[e].username = row.username
    THEN users
    ELSE IF HasUser(row.email)
    THEN (DuplicateOf(row.email) :>
            [row EXCEPT !.id = Cardinality(DOMAIN users) + 1]) @@ users
    ELSE (row.email :> [row EXCEPT !.id = Cardinality(DOMAIN users) + 1]) @@ users

\* db.add(db_user); db.commit(): the table after the INSERT; unchanged when a
\* unique index (username, email) rejects the row with IntegrityError
db_add_user(row) ==
    IF \E e \in DOMAIN users :
          users[e].email = row.email \/ users[e].username = row.username
    THEN users
    ELSE (row.email :> [row EXCEPT !.id = Cardinality(DOMAIN users) + 1]) @@ users

\* the lookup of the address (auth.py:278-282)
register_user_start_result(username, email, password) ==
    IF HasUser(email)
    THEN Response(409, "Email already registered", "", NoUser, {"db.query"})
    ELSE Pending({"db.query"})

register_user_start(p, username, email, password) ==
    /\ Free(p)
    /\ procs' =
         IF register_user_start_result(username, email, password).status = 0
         THEN [procs EXCEPT ![p] =
                 [op |-> "register_user", pc |-> "insert", token |-> Garbage,
                  email |-> email, user |-> {NewUser(username, email, password)}]]
         ELSE procs
    /\ UNCHANGED <<now, users, refresh_tokens, cache, delivered, contacts>>

\* the row the handler is about to add
PendingUser(p) == CHOOSE u \in procs[p].user : TRUE

\* the table after the handler's commit
register_user_insert_users(p) == db_add_user(PendingUser(p))

\* the rest of the handler (auth.py:286-301)
register_user_insert_result(p, sent) ==
    IF register_user_insert_users(p) = users
    THEN Response(500, "Internal Server Error", "", NoUser, {"db.commit"})
    ELSE IF ~sent
    THEN Response(500, "Email error", "", NoUser, {"db.commit", "email"})
    ELSE Response(201, "", "db",
                  {UserResponse(register_user_insert_users(p)[procs[p].email])},
                  {"db.commit", "email"})

\* the mail that has left the server after the handler's send
register_user_insert_delivered(p, sent) ==
    Mail("verify", create_verification_token(procs[p].email),
         sent /\ "email" \in register_user_insert_result(p, sent).io)

register_user_insert(p, sent) ==
    /\ procs[p].op = "register_user" /\ procs[p].pc = "insert"
    /\ Quota(register_user_insert_delivered(p, sent))
    /\ users' = register_user_insert_users(p)
    /\ delivered' = register_user_insert_delivered(p, sent)
    /\ procs' = [procs EXCEPT ![p] = IdleProc]
    /\ UNCHANGED <<now, refresh_tokens, cache, contacts>>

\* what SendGrid answers to a send: accepted, refused, or the client raises
ProviderReplies == {"202", "400", "raise"}
\* its answers to a first and to a possible second send of the same message
ProviderAnswers == ProviderReplies \X ProviderReplies

\* a sender that sends once more after a failure
send_email_result_retrying(answers) ==
    IF answers[1] = "202"
    THEN [sent |-> TRUE, status |-> 200, detail |-> "", calls |-> 1]
    ELSE IF answers[2] = "202"
    THEN [sent |-> TRUE, status |-> 200, detail |-> "", calls |-> 2]
    ELSE [sent |-> FALSE, status |-> 500, detail |-> "Email error", calls |-> 2]

\* email._send_email: one sg.send; anything but a 202 ends in HTTPException
\* 500, the refusal's own HTTPException being caught by `except Exception`
send_email_result(answers) ==
    IF answers[1] = "202"
    THEN [sent |-> TRUE, status |-> 200, detail |-> "", calls |-> 1]
    ELSE IF answers[1] = "400"
    THEN [sent |-> FALSE, status |-> 500,
          detail |-> "Email error: 500: Email failed to send", calls |-> 1]
    ELSE [sent |-> FALSE, status |-> 500,
          detail |-> "Email error: SendGrid error", calls |-> 1]

\* registrations racing each other, and the verification that follows
RegNext ==
    \/ Tick
    \/ \E p \in Procs, reg \in RegistrationRequests :
          register_user_start(p, reg[1], reg[2], reg[3])
    \/ \E p \in Procs, answers \in ProviderAnswers :
          register_user_insert(p, send_email_result(answers).sent)
    \/ \E t \in Presentable : verify_email(t)
    \/ \E e \in AnyEmail, pw \in Passwords : login_html(e, pw)

RegSpec == Init /\ [][RegNext]_vars

----------------------------------------------------------------------------
(* Contacts (main.py:109-144, crud.py:64-92, models.py:17-39).  A row of   *)
(* the contacts table has the columns of models.Contact; who created it is *)
(* not a column, and is kept beside the row (created_by) only so that the  *)
(* properties can speak of it.                                             *)

\* the addresses a ContactCreate may carry
ContactEmails == {"c1@x.com", "c2@x.com"}

\* models.Contact(**contact.model_dump()) with the next id
Contact(email) ==
    [id |-> Cardinality(contacts) + 1, first_name |-> "first", last_name |-> "last",
     email |-> email, phone |-> "000", birthday |-> "", additional_info |-> ""]

\* POST /contacts/: the dependency, then crud.create_contact; the unique index
\* on contacts.email rejects a second row for an address
create_contact_result(token, email) ==
    LET r == get_current_user_result(token)
    IN  IF r.status # 200 THEN r
        ELSE IF \E c \in contacts : c.row.email = email
        THEN Response(500, "Internal Server Error", r.src, NoUser,
                      r.io \cup {"db.commit"})
        ELSE Response(201, "", r.src, r.user, r.io \cup {"db.commit"})

\* the table after the request
create_contact_contacts(token, email) ==
    LET r == create_contact_result(token, email)
    IN  IF r.status = 201
        THEN contacts \cup {[row |-> Contact(email),
                             created_by |-> (CHOOSE u \in r.user : TRUE).email]}
        ELSE contacts

create_contact(token, email) ==
    /\ contacts' = create_contact_contacts(token, email)
    /\ cache' = get_current_user_cache(token)
    /\ UNCHANGED <<now, users, refresh_tokens, delivered, procs>>

\* GET /contacts/: the dependency
get_contacts_result(token) ==
    LET r == get_current_user_result(token)
    IN  IF r.status # 200 THEN r
        ELSE Response(200, "", r.src, r.user, r.io \cup {"db.query"})

\* crud.get_contacts: db.query(models.Contact).all(), the rows of the answer
get_contacts_body(token) ==
    IF get_contacts_result(token).status = 200
    THEN {c.row : c \in contacts}
    ELSE {}

get_contacts(token) ==
    /\ cache' = get_current_user_cache(token)
    /\ UNCHANGED <<now, users, refresh_tokens, contacts, delivered, procs>>

\* two accounts and their contacts, one request at a time
ContactNext ==
    \/ Tick
    \/ create_admin
    \/ \E reg \in Registrations, sent \in BOOLEAN :
          register_user(reg[1], reg[2], reg[3], sent)
    \/ \E e \in AnyEmail \cup {ADMIN_EMAIL}, pw \in Passwords : login_html(e, pw)
    \/ \E t \in Presentable, email \in ContactEmails : create_contact(t, email)
    \/ \E t \in Presentable : get_contacts(t)

ContactSpec == Init /\ [][ContactNext]_vars

----------------------------------------------------------------------------
(* The invalidation rule on its inputs (security.py:62-84).  The column    *)
(* last_password_reset is nullable (models.py:69) and the snapshot field   *)
(* optional (schemas.py:53); the handlers only ever write a time.  Here    *)
(* the resolution starts from any row, snapshot and token the tables and a *)
(* client can hold: a row without a reset time or with one in the past, no *)
(* snapshot or one not newer than the row, a token issued in the past.     *)

\* the values of last_password_reset at time t
LastResets(t) == {NullTime} \cup 0..t

\* a row of the users table with the given last_password_reset
StoredUser(email, last_password_reset) ==
    [id |-> 1, username |-> "alice", email |-> email,
     hashed_password |-> get_password_hash("pw1"), role |-> "user",
     last_password_reset |-> last_password_reset, is_active |-> TRUE,
     is_verified |-> TRUE, verification_token |-> {}, avatar_url |-> ""]

RuleInit ==
    \E t \in 0..MaxTime, e \in Emails :
      \E stored \in LastResets(t), iat \in 0..t, cached \in BOOLEAN :
        \E snapshot \in {r \in LastResets(t) : r = NullTime \/ r <= stored} :
            /\ now = t
            /\ users = (e :> StoredUser(e, stored))
            /\ refresh_tokens = {}
            /\ contacts = {}
            /\ cache = IF cached
                       THEN redis_key(e) :>
                              [value |-> UserResponse(StoredUser(e, snapshot)),
                               expires |-> t + REDIS_CACHE_EXPIRATION]
                       ELSE <<>>
            /\ delivered = {[purpose |-> "access",
                             tok |-> jwt_encode(e, iat, iat + ACCESS_TOKEN_EXPIRE_MINUTES)]}
            /\ procs = [p \in Procs |-> IdleProc]

\* resolutions of the token, and time passing
RuleNext ==
    \/ Tick
    \/ \E p \in Procs, t \in Presentable : get_current_user_start(p, t)
    \/ \E p \in Procs : get_current_user_query(p)
    \/ \E p \in Procs : get_current_user_set(p)

RuleSpec == RuleInit /\ [][RuleNext]_vars

----------------------------------------------------------------------------
(* Password resets with two accounts in the tables: the administrator and  *)
(* a registered user, each with logins, cached snapshots and resets.       *)

AccountEmails == Emails \cup {ADMIN_EMAIL}

ResetNext ==
    \/ Tick
    \/ create_admin
    \/ \E reg \in Registrations, sent \in BOOLEAN :
          register_user(reg[1], reg[2], reg[3], sent)
    \/ \E e \in AccountEmails, pw \in Passwords : login_html(e, pw)
    \/ \E t \in Presentable : read_users_me(t)
    \/ \E p \in Procs, t \in Presentable, pw \in Passwords :
          reset_password_start(p, t, pw)
    \/ \E p \in Procs : reset_password_delete(p)

ResetSpec == Init /\ [][ResetNext]_vars

----------------------------------------------------------------------------
(* Roles: registration requests that carry a role (schemas.py:40-43),      *)
(* the administrator of init_db.py, and role changes behind the admin gate.*)

\* the row built from the request's role
register_user_row_with_requested_role(username, email, password, role) ==
    [NewUser(username, email, password) EXCEPT !.role = role]

\* auth.py:286-294: models.User(...) with role=UserRole.user, the request's
\* role is not read
register_user_row(username, email, password, role) ==
    NewUser(username, email, password)

\* POST /auth/register with a UserCreate body that carries a role
register_user_as(username, email, password, role, sent) ==
    LET r == register_user_result(username, email, password, sent)
        tok == create_verification_token(email)
    IN  /\ IF "email" \in r.io
           THEN /\ Quota(Mail("verify", tok, sent))
                /\ users' = (email :> register_user_row(username, email, password, role))
                               @@ users
                /\ delivered' = Mail("verify", tok, sent)
           ELSE UNCHANGED <<users, delivered>>
        /\ UNCHANGED <<now, refresh_tokens, cache, procs, contacts>>

RoleNext ==
    \/ Tick
    \/ create_admin
    \/ \E reg \in Registrations, role \in UserRole, sent \in BOOLEAN :
          register_user_as(reg[1], reg[2], reg[3], role, sent)
    \/ \E e \in AccountEmails, pw \in Passwords : login_html(e, pw)
    \/ \E t \in Presentable : read_users_me(t)
    \/ \E t \in Presentable, e \in AccountEmails, role \in UserRole :
          change_user_role(t, e, role)

RoleSpec == Init /\ [][RoleNext]_vars

----------------------------------------------------------------------------
(* The life of an account: every request that writes the users table, with *)
(* the administrator and a registered user in it.  Logins use the          *)
(* registration password, the administrator changes the registered user's  *)
(* role, and resets are requested for the registered user, with one new    *)
(* password, by one handler at a time.                                     *)

AccountNext ==
    \/ Tick
    \/ create_admin
    \/ \E reg \in Registrations, role \in UserRole, sent \in BOOLEAN :
          register_user_as(reg[1], reg[2], reg[3], role, sent)
    \/ \E t \in Presentable : verify_email(t)
    \/ \E e \in AccountEmails : login_html(e, "pw1")
    \/ \E t \in Presentable : read_users_me(t)
    \/ \E t \in Presentable, e \in Emails, role \in UserRole :
          change_user_role(t, e, role)
    \/ \E t \in Presentable : upload_avatar_route(t, TRUE)
    \/ \E t \in {x \in Presentable : x.sub \in Emails} : reset_password_start(1, t, "pw2")
    \/ reset_password_delete(1)

AccountSpec == Init /\ [][AccountNext]_vars

----------------------------------------------------------------------------
(* Vocabulary of the properties *)

\* what the client sees of a response
Answer(r) == <<r.status, r.detail>>

\* the token passes the decode and claim checks of get_current_user
Resolvable(t) == ~JWTError(t) /\ t.sub # NoSub /\ t.iat # NoIat

\* an access token of an existing account, minted before its last reset
PreReset(t) ==
    /\ t.sub # NoSub /\ t.iat # NoIat /\ HasUser(t.sub)
    /\ t.iat < timestamp(users[t.sub].last_password_reset)

\* an access token of an existing account, minted at or after its last reset
PostReset(t) ==
    /\ t.sub # NoSub /\ t.iat # NoIat /\ HasUser(t.sub)
    /\ t.iat >= timestamp(users[t.sub].last_password_reset)

\* a reset_password request for the account has committed but not yet returned
ResetInFlight(email) ==
    \E p \in Procs : procs[p].op = "reset_password" /\ procs[p].email = email

Resolving(p) == procs[p].op = "get_current_user"

\* the application issued exactly this token for this purpose
IssuedFor(purpose, t) == [purpose |-> purpose, tok |-> t] \in delivered

----------------------------------------------------------------------------
(* C1: Requests handled one at a time.  For every access token minted      *)
(* before the last password reset of its account, once reset_password has  *)
(* returned, get_current_user answers 401 'Token is no longer valid.       *)
(* Please log in again.', although the token has not expired: at the cache *)
(* lookup it is either rejected as stale or misses, and the store fallback *)
(* then rejects it as stale and never reaches the cache write.             *)
C1_PreResetTokenIsStale ==
    /\ Quiet =>
         \A t \in Presentable :
            (Resolvable(t) /\ PreReset(t)) =>
                LET r == get_current_user_start_result(t)
                IN  Answer(r) = <<401, STALE>> \/ r.status = 0
    /\ \A p \in Procs :
         (Resolving(p) /\ PreReset(procs[p].token)) =>
            /\ procs[p].pc = "query"
            /\ Answer(get_current_user_query_result(p)) = <<401, STALE>>

\* a reset has returned, an unexpired token of before the reset is held, and
\* the reset has evicted the account's snapshot
C1_Witness ==
    /\ Quiet
    /\ \E d \in delivered : d.purpose = "reset"
    /\ \E d \in delivered :
          /\ d.purpose = "access" /\ Resolvable(d.tok) /\ PreReset(d.tok)
          /\ ~CacheHit(redis_key(d.tok.sub))
          /\ get_current_user_start_result(d.tok).status = 0

(* C2 as stated: under every interleaving of get_current_user with         *)
(* reset_password, once the reset has returned (none is in flight for the  *)
(* account) the cache holds no snapshot of the account from before the     *)
(* reset.                                                                  *)
C2_NoPreResetSnapshotAfterReset ==
    \A e \in DOMAIN users :
        (~ResetInFlight(e) /\ CacheHit(redis_key(e))) =>
            cache[redis_key(e)].value.last_password_reset
                = users[e].last_password_reset

(* C3 as stated: in every reachable state, a resolution answered from the  *)
(* cache returns a snapshot whose last-reset timestamp is not older than   *)
(* the account's current one in the store.                                 *)
C3_NoIdentityFromOutdatedSnapshot ==
    \A t \in Presentable :
        LET r == get_current_user_start_result(t)
        IN  (r.status = 200 /\ r.src = "cache" /\ HasUser(t.sub)) =>
                \A u \in r.user :
                    u.last_password_reset >= users[t.sub].last_password_reset

(* C4: An unexpired access token minted at or after the last reset of its  *)
(* account (the registration default included) is never rejected by        *)
(* get_current_user: a cache hit returns the account's identity, a miss    *)
(* goes on to the store, the store fallback goes on to the cache write,    *)
(* and the cache write returns the account's identity.                     *)
C4_PostResetTokenResolves ==
    /\ \A t \in Presentable :
         (Resolvable(t) /\ PostReset(t)) =>
            LET r == get_current_user_start_result(t)
            IN  \/ r.status = 0
                \/ /\ r.status = 200
                   /\ \A u \in r.user : u.email = t.sub
                   /\ r.user # NoUser
    /\ \A p \in Procs :
         (Resolving(p) /\ PostReset(procs[p].token)) =>
            /\ procs[p].pc = "query" => get_current_user_query_result(p).status = 0
            /\ procs[p].pc = "set" =>
                 /\ get_current_user_set_result(p).status = 200
                 /\ \A u \in get_current_user_set_result(p).user :
                        u.email = procs[p].email

\* after a reset, a token of a later login is held and is answered from the cache
C4_Witness ==
    \E d \in delivered :
        /\ d.purpose = "access" /\ Resolvable(d.tok) /\ PostReset(d.tok)
        /\ users[d.tok.sub].last_password_reset > ImportTime
        /\ get_current_user_start_result(d.tok).status = 200

(* C5 as stated: once a reset has completed (none is in flight for the     *)
(* account), no unexpired token minted before it is answered with an       *)
(* identity, whatever ran between the commit and the eviction.             *)
C5_NoPreResetSuccessAfterReset ==
    \A t \in Presentable :
        (Resolvable(t) /\ PreReset(t) /\ ~ResetInFlight(t.sub)) =>
            get_current_user_start_result(t).status # 200

(* C6 as stated: a token is accepted only for the purpose it was issued    *)
(* for: reset_password goes through only with a token mailed by            *)
(* request_password_reset, verify_email only with a token mailed at        *)
(* registration, and the two access-token resolutions return an identity   *)
(* only for a token issued by a login.                                     *)
C6_TokensAreSinglePurpose ==
    \A t \in Presentable :
        /\ reset_password_start_result(t).status = 0 => IssuedFor("reset", t)
        /\ verify_email_result(t).status = 200 => IssuedFor("verify", t)
        /\ get_current_user_start_result(t).status = 200 => IssuedFor("access", t)
        /\ get_current_user_or_redirect_result(t).status = 200 => IssuedFor("access", t)

\* malformed, tampered, expired, without subject, or without issued-at
BadAccessToken(t) ==
    t.fmt # "jwt" \/ ~t.sig \/ t.exp < now \/ t.sub = NoSub \/ t.iat = NoIat

(* C7: For a malformed, tampered or expired token, and for a token without *)
(* a subject or without an issued-at claim, get_current_user answers 401   *)
(* 'Could not validate credentials' having made no cache or store call,    *)
(* and the request ends there: it goes on to no store query and no cache   *)
(* write.                                                                  *)
C7_BadTokenUniformlyRejected ==
    \A t \in Presentable :
        BadAccessToken(t) =>
            /\ get_current_user_start_result(t) = Response(401, CRED, "", NoUser, {})
            /\ \A p \in Procs : get_current_user_start_procs(p, t) = procs

\* an access token of an existing account has expired while its snapshot is cached
C7_Witness ==
    \E d \in delivered :
        /\ d.purpose = "access" /\ d.tok.exp < now
        /\ HasUser(d.tok.sub) /\ CacheHit(redis_key(d.tok.sub))

(* C8 as stated: for an email that has no account, login, password-reset   *)
(* request, reset_password and get_current_user answer as they do for an   *)
(* invalid credential.                                                     *)
C8_NoAccountEnumeration ==
    /\ \A e \in AnyEmail \ DOMAIN users :
         /\ \A pw \in Passwords :
              /\ Answer(login_for_access_token_result(e, pw))
                     = <<401, "Incorrect email or password">>
              /\ Answer(login_html_result(e, pw)) = <<401, "Invalid credentials">>
         /\ \A sent \in BOOLEAN :
              request_password_reset_result(e, sent).status # 404
    /\ \A t \in Presentable :
         (~JWTError(t) /\ t.sub # NoSub /\ ~HasUser(t.sub)) =>
            /\ Answer(reset_password_start_result(t))
                   = Answer(reset_password_start_result(Garbage))
            /\ get_current_user_start_result(t).status \in {0, 401}
    /\ \A p \in Procs :
         (Resolving(p) /\ procs[p].pc = "query" /\ ~HasUser(procs[p].email)) =>
            Answer(get_current_user_query_result(p))
                = Answer(get_current_user_start_result(Garbage))

(* C9: reset_password answers 400 to a token that fails signature or       *)
(* expiry verification or carries no subject, and 404 'User not found' to  *)
(* a valid token whose subject has no account; such a request changes no   *)
(* account and deletes no cache entry.                                     *)
C9_FailedResetChangesNothing ==
    \A t \in Presentable :
        LET r == reset_password_start_result(t)
            verifies == t.fmt = "jwt" /\ t.sig /\ t.exp >= now
        IN  /\ ~verifies => Answer(r) = <<400, "Invalid or expired token">>
            /\ (verifies /\ t.sub = NoSub) => Answer(r) = <<400, "Invalid token">>
            /\ (verifies /\ t.sub # NoSub /\ ~HasUser(t.sub)) =>
                  Answer(r) = <<404, "User not found">>
            /\ (~verifies \/ t.sub = NoSub \/ ~HasUser(t.sub)) =>
                  /\ \A pw \in Passwords : reset_password_start_users(t, pw) = users
                  /\ \A p \in Procs : reset_password_start_procs(p, t) = procs

\* a mailed reset token has expired, the account's snapshot is cached, and a
\* signed token naming an address without account can be presented
C9_Witness ==
    /\ \E d \in delivered :
          /\ d.purpose = "reset" /\ d.tok.exp < now
          /\ CacheHit(redis_key(d.tok.sub))
    /\ ~HasUser(StrangerPlain.sub)

\* the verification token the registration of the account mailed
EmittedFor(t, e) == IssuedFor("verify", t) /\ t.sub = e

(* C10 as stated: once the account is verified, every verify_email with    *)
(* the token its registration emitted is answered 400 'User already        *)
(* verified'.                                                              *)
C10_RepeatAlwaysAlreadyVerified ==
    \A e \in DOMAIN users, t \in Held :
        (users[e].is_verified /\ EmittedFor(t, e)) =>
            Answer(verify_email_result(t)) = <<400, "User already verified">>

(* C10 amended: an account is unverified with a stored token, or verified  *)
(* with none, and never goes back to unverified; verify_email with the     *)
(* unexpired emitted token verifies an unverified account and clears the   *)
(* stored token; every later verify_email with that token is answered 400, *)
(* with 'User already verified' while the token has not expired and        *)
(* 'Invalid token or expired link' afterwards, and changes nothing.        *)
C10_VerificationOneWaySingleUse ==
    /\ [](\A e \in DOMAIN users :
            /\ users[e].is_verified <=> users[e].verification_token = {}
            /\ \A t \in Held :
                 EmittedFor(t, e) =>
                    LET a == Answer(verify_email_result(t))
                    IN  /\ (~users[e].is_verified /\ t.exp >= now) => a[1] = 200
                        /\ (users[e].is_verified /\ t.exp >= now) =>
                              a = <<400, "User already verified">>
                        /\ (users[e].is_verified /\ t.exp < now) =>
                              a = <<400, "Invalid token or expired link">>)
    /\ [](\A t \in Held :
            (IssuedFor("verify", t) /\ HasUser(t.sub)) =>
                LET after == verify_email_users(t)
                IN  IF users[t.sub].is_verified \/ t.exp < now
                    THEN after = users
                    ELSE /\ after[t.sub].is_verified
                         /\ after[t.sub].verification_token = {})
    /\ [][\A e \in DOMAIN users : users[e].is_verified => users'[e].is_verified]_vars

\* the account is verified and the token its registration emitted is still
\* held and unexpired
C10_Witness ==
    \E e \in DOMAIN users, t \in Held :
        /\ users[e].is_verified /\ EmittedFor(t, e) /\ t.exp >= now

----------------------------------------------------------------------------
(* C11 as stated: every login with correct credentials answers with an     *)
(* access token and a refresh token of type bearer, and a refresh token    *)
(* row for the account, unrevoked and with its expiry, is recorded.        *)
C11_LoginReturnsTokenPair ==
    \A e \in DOMAIN users, pw \in Passwords :
        authenticate_user(e, pw) =>
            /\ login_for_access_token_result(e, pw).status = 200
            /\ {"access_token", "refresh_token"}
                   \subseteq DOMAIN login_for_access_token_body(e)
            /\ login_for_access_token_body(e).token_type = "bearer"
            /\ login_html_result(e, pw).status = 302
            /\ \E row \in login_html_refresh_tokens(e, pw) :
                  /\ row.user_id = users[e].id
                  /\ row.expires_at = now + REFRESH_TOKEN_MAX_AGE
                  /\ ~row.revoked

(* C12 as stated: a login with a wrong password or with an email that has  *)
(* no account is answered 401 'Incorrect email or password' by every login *)
(* handler.                                                                *)
C12_FailedLoginSameDetailEverywhere ==
    \A e \in AnyEmail, pw \in Passwords :
        ~authenticate_user(e, pw) =>
            /\ Answer(login_for_access_token_result(e, pw))
                   = <<401, "Incorrect email or password">>
            /\ Answer(login_html_result(e, pw))
                   = <<401, "Incorrect email or password">>

(* C12 amended: a login with a wrong password and a login with an email    *)
(* that has no account get the same answer from the same handler - 401     *)
(* 'Incorrect email or password' from /auth/login, 401 'Invalid            *)
(* credentials' from /auth/login-html - and the request hands out no       *)
(* token and records no refresh token.                                     *)
C12_FailedLoginUniformNoToken ==
    \A e \in AnyEmail, pw \in Passwords :
        (~HasUser(e) \/ users[e].hashed_password # get_password_hash(pw)) =>
            /\ Answer(login_for_access_token_result(e, pw))
                   = <<401, "Incorrect email or password">>
            /\ Answer(login_html_result(e, pw)) = <<401, "Invalid credentials">>
            /\ login_for_access_token_delivered(e, pw) = delivered
            /\ login_html_delivered(e, pw) = delivered
            /\ login_html_refresh_tokens(e, pw) = refresh_tokens

\* an account exists whose password has been changed by a reset, so that the
\* registration password is now a wrong one, and its snapshot is cached
C12_Witness ==
    \E e \in DOMAIN users, pw \in Passwords :
        /\ users[e].hashed_password # get_password_hash(pw)
        /\ users[e].last_password_reset > ImportTime
        /\ CacheHit(redis_key(e))

C15_OneAccountPerEmail ==
    /\ \A e1, e2 \in DOMAIN users : users[e1].email = users[e2].email => e1 = e2
    /\ \A reg \in RegistrationRequests :
          HasUser(reg[2]) =>
             /\ register_user_start_result(reg[1], reg[2], reg[3]).status = 409
             /\ \A sent \in BOOLEAN :
                   /\ register_user_result(reg[1], reg[2], reg[3], sent).status = 409
                   /\ "db.commit" \notin register_user_result(reg[1], reg[2], reg[3], sent).io
    /\ \A p \in Procs :
          (procs[p].pc = "insert" /\ HasUser(procs[p].email)) =>
             /\ register_user_insert_users(p) = users
             /\ \A sent \in BOOLEAN : register_user_insert_result(p, sent).status >= 500

\* one of two registrations of the same address has committed while the other,
\* past its lookup, is about to insert a different row for it
C15_Witness ==
    \E p \in Procs :
        /\ procs[p].pc = "insert"
        /\ HasUser(procs[p].email)
        /\ PendingUser(p).username # users[procs[p].email].username

\* C16: when the provider does not accept the verification mail of a
\* registration (a reply other than 202, or an exception of the client), the
\* request is answered 500, the message is sent once and not again, no link
\* leaves the server, and the row committed just before is in the table as
\* it was written.
C16_MailFailureKeepsAccount ==
    \A p \in Procs, answers \in ProviderAnswers :
        LET mail == send_email_result(answers)
        IN  (/\ procs[p].pc = "insert"
             /\ register_user_insert_users(p) # users
             /\ answers[1] # "202") =>
               /\ ~mail.sent /\ mail.status = 500 /\ mail.calls = 1
               /\ register_user_insert_result(p, mail.sent).status = 500
               /\ "email" \in register_user_insert_result(p, mail.sent).io
               /\ register_user_insert_delivered(p, mail.sent) = delivered
               /\ HasUser(procs[p].email) = FALSE
               /\ register_user_insert_users(p) =
                    (procs[p].email :>
                       [PendingUser(p) EXCEPT !.id = Cardinality(DOMAIN users) + 1])
                    @@ users

\* a registration has ended in the mail failure: its account is in the table,
\* unverified, and its verification link never left the server
C16_Witness ==
    /\ \A p \in Procs : Idle(p)
    /\ \E e \in DOMAIN users :
          /\ ~users[e].is_verified
          /\ users[e].verification_token # {}
          /\ \A t \in users[e].verification_token : t \notin Held

\* C17: two successful resolutions of one unexpired token return the same
\* snapshot as long as the cache entry of its account is neither evicted nor
\* expired, whatever happens to the row in between: while the entry stays,
\* the answer a token gets from it before a step and after it is the same.
C17_SameSnapshotWhileEntryLives ==
    [][\A t \in Held :
          LET key == redis_key(t.sub)
          IN  (/\ get_current_user_start_result(t).status = 200
               /\ key \in DOMAIN cache'
               /\ (get_current_user_start_result(t).status = 200)') =>
                 (get_current_user_start_result(t).user)' =
                    get_current_user_start_result(t).user]_vars

\* C18: a resolution that succeeds through a cache miss leaves, under the
\* key user:<e> of its account, the snapshot it returns, live for the
\* time-to-live; and a resolution for e that finds a live entry is answered
\* from the snapshot under that key with one cache read and no store read.
C18_MissPopulatesHitSkipsStore ==
    /\ \A p \in Procs :
          (procs[p].op = "get_current_user" /\ procs[p].pc = "set") =>
             LET key == redis_key(procs[p].email)
                 c == get_current_user_set_cache(p)
             IN  /\ key \in DOMAIN c
                 /\ now < c[key].expires
                 /\ get_current_user_set_result(p).status = 200
                 /\ get_current_user_set_result(p).user = {c[key].value}
                 /\ c[key].value.email = procs[p].email
    /\ \A t \in Presentable :
          (/\ ~JWTError(t) /\ t.sub # NoSub /\ t.iat # NoIat
           /\ CacheHit(redis_key(t.sub))) =>
             LET r == get_current_user_start_result(t)
             IN  /\ r.status # 0
                 /\ r.src = "cache"
                 /\ r.io = {"redis.get"}
                 /\ r.status = 200 => r.user = {cache[redis_key(t.sub)].value}

\* a resolution has gone through the miss and written its snapshot, and the
\* token it was made with is now answered from the entry
C18_Witness ==
    /\ \A p \in Procs : Idle(p)
    /\ \E t \in Held :
          /\ CacheHit(redis_key(t.sub))
          /\ get_current_user_result(t).status = 200
          /\ get_current_user_result(t).src = "cache"

\* C19: for every account e of the table, the access token that
\* create_access_token issues for subject e resolves to an identity whose
\* email is e; and whenever a token issued earlier for e is resolved to an
\* identity, from the cache or from the store, that identity's email is e.
C19_IssueResolveRoundTrip ==
    /\ \A e \in DOMAIN users :
          LET r == get_current_user_result(
                      create_access_token(e, ACCESS_TOKEN_EXPIRE_MINUTES))
          IN  /\ r.status = 200
              /\ \A u \in r.user : u.email = e
              /\ r.user # {}
    /\ \A d \in delivered :
          (d.purpose = "access" /\ get_current_user_result(d.tok).status = 200) =>
             /\ get_current_user_result(d.tok).user # {}
             /\ \A u \in get_current_user_result(d.tok).user : u.email = d.tok.sub

\* two accounts exist, a client holds an access token issued for one of them,
\* and resolving it gives that account's identity
C19_Witness ==
    \E d \in delivered :
        /\ Cardinality(DOMAIN users) > 1
        /\ d.purpose = "access"
        /\ HasUser(d.tok.sub)
        /\ d.tok = jwt_encode(d.tok.sub, d.tok.iat, d.tok.exp)
        /\ get_current_user_result(d.tok).status = 200
        /\ \E u \in get_current_user_result(d.tok).user : u.email = d.tok.sub

\* C20: listing contacts returns the caller's contacts only: every row in the
\* answer to an authenticated caller was created by that caller.
C20_ListingReturnsOwnContactsOnly ==
    \A t \in Presentable :
        get_contacts_result(t).status = 200 =>
           \A c \in contacts :
              c.row \in get_contacts_body(t) =>
                 \A u \in get_contacts_result(t).user : c.created_by = u.email

\* C21: any authenticated account can upload an avatar, an ordinary user
\* presenting its access token as a bearer header included: for every token
\* that resolves to an identity, the upload whose file the blob store accepts
\* is answered 200 and leaves the store's url on the account, whichever way
\* the token is presented.
C21_AnyAccountCanUploadAvatar ==
    \A t \in Held, transport \in Transports :
        get_current_user_result(t).status = 200 =>
           /\ upload_avatar_request_result(transport, t, TRUE).status = 200
           /\ upload_avatar_request_users(transport, t, TRUE)[t.sub].avatar_url
                 = AvatarUrl

\* C22: for an existing account and a token that passes the signature, expiry
\* and claim checks, get_current_user answers 'Token is no longer valid'
\* exactly when the last_password_reset it compares with - the snapshot's on
\* a cache hit, the row's on a miss - is not null and strictly later than the
\* token's iat; otherwise (equal times, null) it returns the identity.
C22_StaleExactlyWhenResetIsLater ==
    \A t \in Held :
        (~JWTError(t) /\ t.sub # NoSub /\ t.iat # NoIat /\ HasUser(t.sub)) =>
           LET key == redis_key(t.sub)
               compared == IF CacheHit(key)
                           THEN cache[key].value.last_password_reset
                           ELSE users[t.sub].last_password_reset
               later == compared # NullTime /\ compared - LocalUtcOffset > t.iat
               r == get_current_user_result(t)
           IN  /\ (r.status = 401 /\ r.detail = STALE) <=> later
               /\ ~later => r.status = 200
               /\ r.src = IF CacheHit(key) THEN "cache" ELSE "db"
               /\ \A p \in Procs :
                     (procs[p].pc = "query" /\ procs[p].token = t) =>
                        ((get_current_user_query_result(p).detail = STALE)
                            <=> (/\ users[t.sub].last_password_reset # NullTime
                                 /\ users[t.sub].last_password_reset
                                       - LocalUtcOffset > t.iat))

\* a token issued at the very time of the row's last reset: a resolution of
\* it has missed the cache and is about to read the row, and it is accepted
C22_Witness ==
    \E t \in Held :
        /\ ~JWTError(t)
        /\ ~CacheHit(redis_key(t.sub))
        /\ users[t.sub].last_password_reset = t.iat
        /\ get_current_user_result(t).status = 200
        /\ \E p \in Procs : procs[p].pc = "query" /\ procs[p].token = t

\* C23: every operation that turns a presented access token into an identity
\* - get_current_user, get_current_user_from_cookie, and
\* get_current_user_or_redirect of the dashboard and logout - rejects a token
\* issued before the last password reset of its account: with requests
\* handled one at a time, none of them returns an identity for such a token.
C23_EveryResolutionRejectsPreResetToken ==
    Quiet =>
       \A t \in Presentable :
          PreReset(t) =>
             /\ get_current_user_result(t).status # 200
             /\ get_current_user_from_cookie_result(t).status # 200
             /\ get_current_user_or_redirect_result(t).status # 200

\* C24 as stated: on a cache miss where the account exists the snapshot is
\* written before the invalidation check, so the cache holds the account's
\* snapshot after the resolution also when it ends in 'Token is no longer
\* valid'.
C24_SnapshotCachedEvenWhenStale ==
    \A t \in Held :
        (Resolvable(t) /\ HasUser(t.sub) /\ ~CacheHit(redis_key(t.sub))) =>
           /\ redis_key(t.sub) \in DOMAIN get_current_user_cache(t)
           /\ \A p \in Procs :
                 (procs[p].pc = "query" /\ procs[p].token = t) =>
                    get_current_user_query_procs(p)[p].pc = "set"

\* C24: on a cache miss get_current_user runs the invalidation check on the
\* row first and writes the snapshot, with the configured time-to-live, only
\* when the check has passed; a resolution that ends in 'Token is no longer
\* valid', or finds no account, writes nothing to the cache.
C24_SnapshotCachedOnlyAfterCheck ==
    /\ \A p \in Procs :
          (Resolving(p) /\ procs[p].pc = "query") =>
             IF get_current_user_query_result(p).status = 0
             THEN /\ HasUser(procs[p].email)
                  /\ get_current_user_query_procs(p)[p].pc = "set"
                  /\ get_current_user_query_procs(p)[p].user
                        = {UserResponse(users[procs[p].email])}
             ELSE /\ get_current_user_query_result(p).status = 401
                  /\ get_current_user_query_procs(p) = Finish(p)
    /\ \A p \in Procs :
          (Resolving(p) /\ procs[p].pc = "set") =>
             \A u \in procs[p].user :
                /\ ~TokenStale(u.last_password_reset, procs[p].token.iat)
                /\ get_current_user_set_cache(p)[redis_key(procs[p].email)]
                      = [value |-> u, expires |-> now + REDIS_CACHE_EXPIRATION]
    /\ \A t \in Presentable :
          LET r == get_current_user_result(t)
          IN  /\ r.status = 401 => get_current_user_cache(t) = cache
              /\ (r.status = 200 /\ r.src = "db") =>
                    get_current_user_cache(t)[redis_key(t.sub)]
                       = [value |-> UserResponse(users[t.sub]),
                          expires |-> now + REDIS_CACHE_EXPIRATION]

\* a resolution has missed the cache, its account exists, and the row's check
\* is about to reject its token: it ends there, and the cache stays empty
C24_Witness ==
    \E p \in Procs :
        /\ Resolving(p) /\ procs[p].pc = "query"
        /\ HasUser(procs[p].email)
        /\ Answer(get_current_user_query_result(p)) = <<401, STALE>>
        /\ redis_key(procs[p].email) \notin DOMAIN cache
        /\ redis_key(procs[p].email) \notin DOMAIN get_current_user_cache(procs[p].token)

\* C25: a successful reset_password for account A changes, in the users
\* table, only A's password hash and A's last_password_reset, which becomes
\* the time of the reset, and deletes from the cache only the entry
\* user:<A's email>: every other row, every other entry, and A's id, name,
\* role, flags, avatar and verification token stay as they were.
C25_ResetTouchesOnlyItsAccount ==
    /\ \A t \in Presentable, pw \in Passwords :
          reset_password_start_result(t).status = 0 =>
             LET after == reset_password_start_users(t, pw)
                 A == t.sub
             IN  /\ DOMAIN after = DOMAIN users
                 /\ \A e \in DOMAIN users \ {A} : after[e] = users[e]
                 /\ after[A].hashed_password = get_password_hash(pw)
                 /\ after[A].last_password_reset = now
                 /\ \A f \in DOMAIN users[A] \ {"hashed_password", "last_password_reset"} :
                       after[A][f] = users[A][f]
    /\ \A p \in Procs :
          (procs[p].op = "reset_password" /\ procs[p].pc = "delete") =>
             LET after == reset_password_delete_cache(p)
             IN  /\ DOMAIN after = DOMAIN cache \ {redis_key(procs[p].email)}
                 /\ \A k \in DOMAIN after : after[k] = cache[k]
                 /\ reset_password_delete_result(p).status = 200

\* a reset of one account has committed its new password and is about to
\* evict its snapshot, while another account's snapshot is cached beside it
C25_Witness ==
    \E p \in Procs :
        /\ procs[p].op = "reset_password" /\ procs[p].pc = "delete"
        /\ users[procs[p].email].hashed_password = get_password_hash("pw2")
        /\ redis_key(procs[p].email) \in DOMAIN cache
        /\ \E e \in DOMAIN users :
              e # procs[p].email /\ redis_key(e) \in DOMAIN cache

\* C26: every entry of the cache was written with the configured
\* time-to-live and is gone once that time has elapsed since the write: an
\* entry is never present at or after its expiry, which is at most
\* REDIS_CACHE_EXPIRATION ahead, and the write at the end of a miss sets it
\* to now + REDIS_CACHE_EXPIRATION; a resolution answered from the cache
\* performs one cache read and leaves the entry, with its expiry, as it
\* was; and an entry whose expiry lies within the horizon eventually is
\* absent, at which point a resolution of a token for that account is not
\* answered from the cache but goes on to the users table.
C26_EntryLivesOneTimeToLive ==
    /\ [](\A k \in DOMAIN cache :
             now < cache[k].expires /\ cache[k].expires <= now + REDIS_CACHE_EXPIRATION)
    /\ [](\A p \in Procs :
             (procs[p].op = "get_current_user" /\ procs[p].pc = "set") =>
                 get_current_user_set_cache(p)[redis_key(procs[p].email)].expires
                     = now + REDIS_CACHE_EXPIRATION)
    /\ [](\A t \in Presentable :
             get_current_user_start_result(t).src = "cache" =>
                 /\ get_current_user_cache(t) = cache
                 /\ get_current_user_start_result(t).io = {"redis.get"})
    /\ \A e \in Emails, x \in 1..MaxTime :
          (redis_key(e) \in DOMAIN cache /\ cache[redis_key(e)].expires = x)
             ~> (/\ redis_key(e) \notin DOMAIN cache
                 /\ now >= x
                 /\ \A t \in Held :
                       (~JWTError(t) /\ t.sub = e /\ t.iat # NoIat) =>
                           get_current_user_start_result(t).status = 0)

\* a snapshot written by an earlier resolution is live and a token is being
\* answered from it, before the clock has reached its expiry
C26_Witness ==
    /\ now < MaxTime
    /\ \E t \in Held :
          /\ CacheHit(redis_key(t.sub))
          /\ cache[redis_key(t.sub)].expires = now + REDIS_CACHE_EXPIRATION
          /\ get_current_user_start_result(t).src = "cache"
          /\ get_current_user_start_result(t).status = 200

\* C27: whatever role a registration request carries, the row it adds has
\* the role user, is_verified false and is_active true; and in every step
\* an account that is an administrator afterwards and was not one before is
\* either the administrator row added by create_admin, or the target of a
\* change_user_role request whose token was resolved to an identity with the
\* administrator role.
C27_AdminOnlyByAdminOrSeed ==
    /\ [](\A reg \in Registrations, role \in UserRole :
             LET row == register_user_row(reg[1], reg[2], reg[3], role)
             IN  row.role = "user" /\ ~row.is_verified /\ row.is_active)
    /\ [][\A e \in DOMAIN users' \ DOMAIN users :
             e # ADMIN_EMAIL =>
                 /\ users'[e].role = "user"
                 /\ ~users'[e].is_verified
                 /\ users'[e].is_active]_vars
    /\ [][\A e \in DOMAIN users' :
             (users'[e].role = "admin" /\ (HasUser(e) => users[e].role # "admin")) =>
                 \/ ~HasUser(e) /\ e = ADMIN_EMAIL /\ users' = create_admin_users
                 \/ /\ HasUser(e)
                    /\ \E t \in Presentable :
                          LET g == require_admin_user_from_cookie_result(t)
                          IN  /\ g.status = 200
                              /\ \A u \in g.user : u.role = "admin"
                              /\ users' = change_user_role_users(t, e, "admin")]_vars

\* an account that registered asking for the administrator role, and was
\* later promoted by the administrator
C27_Witness ==
    \E e \in Emails : HasUser(e) /\ users[e].role = "admin" /\ ~users[e].is_verified

\* C28: a change_user_role request that commits changes, in the users
\* table, only the role of the target row, and its handler makes no cache
\* call: every entry of the cache, the target's included, is afterwards as
\* it was, and the cache after the request is the one left by the gate's
\* resolution of the caller.  While a snapshot of an account is live in the
\* cache, a resolution of that account's token returns the snapshot, and
\* the admin gate lets it pass exactly when the snapshot's role is admin,
\* whatever role the users table holds.
C28_RoleChangeLeavesSnapshots ==
    /\ \A t \in Presentable, e \in AccountEmails, role \in UserRole :
          "db.commit" \in change_user_role_result(t, e, role).io =>
             LET after == change_user_role_users(t, e, role)
                 c == change_user_role_cache(t, e, role)
             IN  /\ DOMAIN after = DOMAIN users
                 /\ \A o \in DOMAIN users \ {e} : after[o] = users[o]
                 /\ after[e].role = role
                 /\ \A f \in DOMAIN users[e] \ {"role"} : after[e][f] = users[e][f]
                 /\ \A k \in DOMAIN cache : k \in DOMAIN c /\ c[k] = cache[k]
                 /\ c = get_current_user_cache(t)
                 /\ DOMAIN c \subseteq DOMAIN cache \cup {redis_key(t.sub)}
    /\ \A t \in Held :
          (/\ ~JWTError(t) /\ t.sub # NoSub /\ t.iat # NoIat
           /\ CacheHit(redis_key(t.sub))
           /\ get_current_user_result(t).status = 200) =>
             LET snapshot == cache[redis_key(t.sub)].value
             IN  /\ get_current_user_result(t).user = {snapshot}
                 /\ require_admin_user_from_cookie_result(t).status
                       = IF snapshot.role = "admin" THEN 200 ELSE 403

\* an account whose role was changed while its snapshot is live: the stored
\* role and the snapshot's role differ, and the gate answers by the snapshot
C28_Witness ==
    \E t \in Held :
        /\ ~JWTError(t) /\ HasUser(t.sub)
        /\ CacheHit(redis_key(t.sub))
        /\ cache[redis_key(t.sub)].value.role # users[t.sub].role
        /\ get_current_user_result(t).status = 200
        /\ require_admin_user_from_cookie_result(t).status
              = IF users[t.sub].role = "admin" THEN 403 ELSE 200

\* C29: in every reachable state every row with is_verified true has no
\* verification token, and no step of register, verify_email, login,
\* reset_password, change_user_role, upload-avatar or create_admin takes a
\* row's is_verified from true to false or removes the row.
C29_VerifiedStaysVerified ==
    /\ [](\A e \in DOMAIN users :
             users[e].is_verified => users[e].verification_token = {})
    /\ [][\A e \in DOMAIN users :
             users[e].is_verified => (e \in DOMAIN users' /\ users'[e].is_verified)]_vars

\* a registered account that was verified and whose password was reset
\* afterwards
C29_Witness ==
    \E e \in Emails :
        /\ HasUser(e)
        /\ users[e].is_verified /\ users[e].verification_token = {}
        /\ users[e].hashed_password = get_password_hash("pw2")

\* C30: in every step, a row that exists before the step exists after it,
\* and if its password hash or its last_password_reset differs afterwards
\* then the step is the commit of a reset_password request made with a
\* token that names that account: the table is the one the reset commits,
\* the new last_password_reset is the time of the step, and the handler
\* goes on to evict the account's snapshot.  Registration of another
\* address, verify_email, login, change_user_role, upload-avatar and
\* resolutions therefore leave both columns as they were; and no step
\* makes a row's last_password_reset smaller.
C30_OnlyResetTouchesPassword ==
    /\ [][\A e \in DOMAIN users :
             /\ e \in DOMAIN users'
             /\ (\/ users'[e].hashed_password # users[e].hashed_password
                 \/ users'[e].last_password_reset # users[e].last_password_reset) =>
                   /\ \E t \in Presentable, pw \in Passwords :
                         /\ reset_password_start_result(t).status = 0
                         /\ t.sub = e
                         /\ users' = reset_password_start_users(t, pw)
                   /\ users'[e].last_password_reset = now
                   /\ \E p \in Procs :
                         /\ procs'[p].op = "reset_password"
                         /\ procs'[p].pc = "delete"
                         /\ procs'[p].email = e]_vars
    /\ [][\A e \in DOMAIN users :
             users'[e].last_password_reset >= users[e].last_password_reset]_vars

\* an account whose password was reset after the start of the clock, with
\* the reset finished, and whose role was changed and address verified
C30_Witness ==
    /\ \A p \in Procs : Idle(p)
    /\ \E e \in Emails :
          /\ HasUser(e)
          /\ users[e].last_password_reset > ImportTime
          /\ users[e].hashed_password = get_password_hash("pw2")
          /\ users[e].role = "admin"
          /\ users[e].is_verified

=============================================================================
